---- MODULE Spec2Model ----
(***************************************************************************)
(* Model of boundary_parser.py: spans (ContentGroup), the boundary         *)
(* distance between two spans, the label assembler (find_pattern_match,    *)
(* choose_best_label, find_label) and the value locator (find_value,       *)
(* find_value_by_label); and of column_parser.py: the coordinate           *)
(* normalizer (get_norm_to_orig_map, get_norm_pos) and parse_columns.      *)
(*                                                                         *)
(* A text is a sequence of one-character strings; "\n" ends a line.        *)
(* A word pattern of a label is a literal word; the affixes find_label     *)
(* adds to the first and last word pattern are kept as flags.  A value     *)
(* pattern is a character class followed by + (a maximal run of the        *)
(* class), given as the set of its characters.  A dictionary is a          *)
(* function from its keys.                                                 *)
(***************************************************************************)
EXTENDS Integers, Sequences, FiniteSets, TLC

VARIABLES
    pc,                 \* position of the running call
    group1, group2,     \* arguments of boundary_distance
    d12, d21,           \* boundary_distance(group1, group2) and (group2, group1)
    text,               \* find_value_by_label: text
    label_word_patterns,\* find_value_by_label: label_word_patterns
    value_pattern,      \* find_value_by_label: value_pattern
    line_search_limit,  \* find_value_by_label: line_search_limit
    label,              \* the label find_label returned (found = FALSE: None)
    lines,              \* find_value: lines
    start_line,         \* find_value: start_line
    search_lines,       \* find_value: search_lines
    scanned,            \* find_value: lines of search_lines already scanned
    value_positions,    \* find_value: value_positions
    result,             \* what the call returned or raised
    label_starts,       \* find_label, choose_best_label: label_starts
    first_idx,          \* find_label: first_idx
    start_idx,          \* find_label: candidates the for loop has taken
    current_label,      \* find_label: current_label
    current_line,       \* find_label: current_line
    current_char,       \* find_label: current_char
    remaining_patterns, \* find_label: remaining_patterns
    matches,            \* find_pattern_match: matches of the last search
    label_continuations,\* find_label: label_continuations
    next_label,         \* find_label: next_label (found = FALSE: None)
    next_idx,           \* find_label: next_idx
    line,               \* get_norm_to_orig_map, get_norm_pos: line
    tabsize,            \* get_norm_to_orig_map, get_norm_pos, parse_columns: tabsize
    orig_index,         \* get_norm_pos: orig_index
    mapping,            \* what get_norm_to_orig_map returned
    norm_pos,           \* what get_norm_pos returned or raised
    line_num,           \* parse_columns: lines the for loop has taken
    norm_extents,       \* parse_columns: norm_extents
    reset_boundaries,   \* parse_columns: reset_boundaries
    boundary_estimates, \* parse_columns: boundary_estimates
    cut_points,         \* parse_columns: cut_points
    max_cols_seen,      \* parse_columns: max_cols_seen
    all_results         \* parse_columns: all_results

vars == <<pc, group1, group2, d12, d21, text, label_word_patterns,
          value_pattern, line_search_limit, label, lines, start_line,
          search_lines, scanned, value_positions, result, label_starts,
          first_idx, start_idx, current_label, current_line, current_char,
          remaining_patterns, matches, label_continuations, next_label,
          next_idx, line, tabsize, orig_index, mapping, norm_pos, line_num,
          norm_extents, reset_boundaries,
          boundary_estimates, cut_points, max_cols_seen, all_results>>

distVars == <<group1, group2, d12, d21>>

labelVars == <<label_starts, first_idx, start_idx, current_label, current_line,
               current_char, remaining_patterns, matches,
               label_continuations, next_label, next_idx>>

normVars == <<line, tabsize, orig_index, mapping, norm_pos>>

colVars == <<line_num, norm_extents, reset_boundaries, boundary_estimates,
             cut_points, max_cols_seen, all_results>>

findVars == <<text, label_word_patterns, value_pattern, line_search_limit,
              label, lines, start_line, search_lines, scanned,
              value_positions, result>>

----------------------------------------------------------------------------
(* Bounds of the model *)

MaxLine == 3        \* spans of the distance specification use lines 0..MaxLine
MaxCol == 3         \* and columns 0..MaxCol
MaxLines == 4       \* a text has 1..MaxLines lines
MaxWin == 2         \* lines_above and lines_below range over 0..MaxWin
MaxCands == 3       \* choose_best_label gets 1..MaxCands candidates
MaxCandLine == 3    \* standing on the lines 1..MaxCandLine
MaxLabelLines == 3  \* a text searched for a label has 1..MaxLabelLines lines
MaxLineLen == 4     \* a line given to the normalizer has 0..MaxLineLen characters
MaxTab == 4         \* tabsize ranges over 1..MaxTab
MaxColLines == 3    \* a text given to parse_columns has 1..MaxColLines lines
MaxMatchLines == 2  \* a text find_pattern_match is called on has 1..MaxMatchLines lines
MaxCursor == 2      \* with start_char in 0..MaxCursor
MaxConts == 2       \* choose_best_label_continuation gets 0..MaxConts candidates
MaxContLine == 3    \* standing on the lines 1..MaxContLine
MaxContCol == 2     \* at the columns 0..MaxContCol

(* Program constants *)

TabSize == 8        \* expandtabs(tabsize=8)

----------------------------------------------------------------------------
(* Python helpers *)

Min(a, b) == IF a < b THEN a ELSE b

Max(a, b) == IF a > b THEN a ELSE b

Abs(a) == IF a < 0 THEN -a ELSE a

NL == "\n"

TAB == "\t"

\* s[a:b] with Python's treatment of negative and out-of-range indices
SliceIdx(n, i) == IF i < 0 THEN Max(0, i + n) ELSE Min(i, n)

PySlice(s, a, b) == SubSeq(s, SliceIdx(Len(s), a) + 1, SliceIdx(Len(s), b))

\* s[a:]
PyFrom(s, a) == PySlice(s, a, Len(s))

RECURSIVE SplitFrom(_, _, _)
SplitFrom(s, i, cur) ==
    IF i > Len(s) THEN <<cur>>
    ELSE IF s[i] = NL THEN <<cur>> \o SplitFrom(s, i + 1, <<>>)
    ELSE SplitFrom(s, i + 1, Append(cur, s[i]))

\* s.split('\n')
Split(s) == SplitFrom(s, 1, <<>>)

RECURSIVE Join(_)
\* '\n'.join(ls)
Join(ls) ==
    IF Len(ls) = 0 THEN <<>>
    ELSE IF Len(ls) = 1 THEN ls[1]
    ELSE ls[1] \o <<NL>> \o Join(Tail(ls))

RECURSIVE Spaces(_)
Spaces(n) == IF n <= 0 THEN <<>> ELSE <<" ">> \o Spaces(n - 1)

RECURSIVE ExpandFrom(_, _, _)
ExpandFrom(s, i, col) ==
    IF i > Len(s) THEN <<>>
    ELSE IF s[i] = TAB
         THEN Spaces(TabSize - (col % TabSize))
              \o ExpandFrom(s, i + 1, col + TabSize - (col % TabSize))
    ELSE IF s[i] = NL THEN <<NL>> \o ExpandFrom(s, i + 1, 0)
    ELSE <<s[i]>> \o ExpandFrom(s, i + 1, col + 1)

\* s.expandtabs(tabsize=8)
ExpandTabs(s) == ExpandFrom(s, 1, 0)

IsSpace(c) == c \in {" ", NL, TAB}

RECURSIVE LStrip(_)
LStrip(s) == IF Len(s) > 0 /\ IsSpace(s[1]) THEN LStrip(Tail(s)) ELSE s

RECURSIVE RStrip(_)
RStrip(s) ==
    IF Len(s) > 0 /\ IsSpace(s[Len(s)]) THEN RStrip(SubSeq(s, 1, Len(s) - 1))
    ELSE s

\* s.strip()
Strip(s) == RStrip(LStrip(s))

\* v in s (substring test)
IsSubstring(v, s) ==
    \E i \in 0..(Len(s) - Len(v)) : SubSeq(s, i + 1, i + Len(v)) = v

\* s[:n].count('\n')
CountNL(s, n) == Cardinality({i \in 1..Min(n, Len(s)) : s[i] = NL})

\* s[:n].rfind('\n')
RFindNL(s, n) ==
    LET at == {i \in 1..Min(n, Len(s)) : s[i] = NL}
    IN IF at = {} THEN -1 ELSE (CHOOSE i \in at : \A j \in at : j <= i) - 1

----------------------------------------------------------------------------
(* ContentGroup and boundary_distance *)

\* ContentGroup(content, line_start, char_start, char_end, line_end); the
\* optional line_end is <<>> for None and <<n>> for n
ContentGroup(content, ls, cs, ce, le) ==
    [content |-> content, line_start |-> ls, char_start |-> cs,
     char_end |-> ce,
     line_end |-> IF le = <<>> \/ le[1] = 0 THEN ls ELSE le[1]]

\* boundary_distance with the second vertical branch measured between the
\* two first lines
boundary_distance_skewed(g1, g2) ==
    IF /\ g1.line_start <= g2.line_end /\ g1.line_end >= g2.line_start
       /\ g1.char_start <= g2.char_end /\ g1.char_end >= g2.char_start
    THEN 0
    ELSE
      LET vertical_dist ==
              IF g1.line_end < g2.line_start
              THEN g2.line_start - g1.line_end
              ELSE IF g2.line_end < g1.line_start
              THEN g1.line_start - g2.line_start
              ELSE 0
          horizontal_dist ==
              IF g1.char_end < g2.char_start
              THEN g2.char_start - g1.char_end
              ELSE IF g2.char_end < g1.char_start
              THEN g1.char_start - g2.char_end
              ELSE 0
      IN IF vertical_dist = 0 THEN horizontal_dist
         ELSE IF horizontal_dist = 0 THEN vertical_dist
         ELSE vertical_dist + horizontal_dist

\* boundary_distance counting only the lines strictly between the spans
boundary_distance_between(g1, g2) ==
    IF /\ g1.line_start <= g2.line_end /\ g1.line_end >= g2.line_start
       /\ g1.char_start <= g2.char_end /\ g1.char_end >= g2.char_start
    THEN 0
    ELSE
      LET vertical_dist ==
              IF g1.line_end < g2.line_start
              THEN g2.line_start - g1.line_end - 1
              ELSE IF g2.line_end < g1.line_start
              THEN g1.line_start - g2.line_end - 1
              ELSE 0
          horizontal_dist ==
              IF g1.char_end < g2.char_start
              THEN g2.char_start - g1.char_end
              ELSE IF g2.char_end < g1.char_start
              THEN g1.char_start - g2.char_end
              ELSE 0
      IN IF vertical_dist = 0 THEN horizontal_dist
         ELSE IF horizontal_dist = 0 THEN vertical_dist
         ELSE vertical_dist + horizontal_dist

boundary_distance(g1, g2) ==
    IF /\ g1.line_start <= g2.line_end /\ g1.line_end >= g2.line_start
       /\ g1.char_start <= g2.char_end /\ g1.char_end >= g2.char_start
    THEN 0
    ELSE
      LET vertical_dist ==
              IF g1.line_end < g2.line_start
              THEN g2.line_start - g1.line_end
              ELSE IF g2.line_end < g1.line_start
              THEN g1.line_start - g2.line_end
              ELSE 0
          horizontal_dist ==
              IF g1.char_end < g2.char_start
              THEN g2.char_start - g1.char_end
              ELSE IF g2.char_end < g1.char_start
              THEN g1.char_start - g2.char_end
              ELSE 0
      IN IF vertical_dist = 0 THEN horizontal_dist
         ELSE IF horizontal_dist = 0 THEN vertical_dist
         ELSE vertical_dist + horizontal_dist

----------------------------------------------------------------------------
\* The regular expressions find_label builds.  A pattern is a record
\* [open, word, close]: the literal word, preceded when open by an optional
\* "(" with optional whitespace after it, and followed when close by optional
\* whitespace and an optional ")" or ":".  The patterns of one search are
\* joined by whitespace (one or more).  Positions are 1-based indices into
\* the searched text; a failed match is 0.

RECURSIVE WsRun(_, _)
\* length of the whitespace run starting at p (greedy \s*)
WsRun(s, p) == IF p <= Len(s) /\ IsSpace(s[p]) THEN 1 + WsRun(s, p + 1) ELSE 0

WordAt(s, p, w) ==
    p >= 1 /\ p + Len(w) - 1 <= Len(s) /\ SubSeq(s, p, p + Len(w) - 1) = w

\* the index after an optional "(" and the whitespace that follows it
AfterParen(s, p) == p + 1 + WsRun(s, p + 1)

\* where the word of a pattern matched at p starts
WordStart(s, p, pat) ==
    IF pat.open /\ p <= Len(s) /\ s[p] = "("
       /\ WordAt(s, AfterParen(s, p), pat.word)
    THEN AfterParen(s, p) ELSE p

\* the optional ")" or ":" at e
CloseAt(s, e) == IF e <= Len(s) /\ s[e] \in {")", ":"} THEN e + 1 ELSE e

\* the word of a pattern at q and what follows it
MatchWord(s, q, pat) ==
    IF ~WordAt(s, q, pat.word) THEN 0
    ELSE IF ~pat.close THEN q + Len(pat.word)
    ELSE CloseAt(s, q + Len(pat.word) + WsRun(s, q + Len(pat.word)))

\* one pattern matched at p: the index after the match, or 0
MatchOne(s, p, pat) == MatchWord(s, WordStart(s, p, pat), pat)

\* the whitespace (one or more) between two patterns
SkipWs(s, p) == IF WsRun(s, p) = 0 THEN 0 ELSE p + WsRun(s, p)

RECURSIVE MatchSeq(_, _, _, _)
MatchRest(s, e, pats, i) == IF e = 0 THEN 0 ELSE MatchSeq(s, e, pats, i + 1)

MatchFrom(s, p1, pats, i) ==
    IF p1 = 0 THEN 0 ELSE MatchRest(s, MatchOne(s, p1, pats[i]), pats, i)

\* patterns i.. of pats, joined by whitespace, matched at p
MatchSeq(s, p, pats, i) ==
    IF i > Len(pats) THEN p
    ELSE MatchFrom(s, IF i = 1 THEN p ELSE SkipWs(s, p), pats, i)

RECURSIVE FindIter(_, _, _)
FindNext(s, pats, p, e) ==
    IF e = 0 THEN FindIter(s, pats, p + 1)
    ELSE <<[start |-> p - 1, end |-> e - 1]>> \o FindIter(s, pats, e)

\* re.finditer: the non-overlapping matches from p on, as Python offsets
FindIter(s, pats, p) ==
    IF p > Len(s) THEN <<>> ELSE FindNext(s, pats, p, MatchSeq(s, p, pats, 1))

\* char_start of lines 168-171
MatchColumn(start_text, m, line_start, startLine, startChar) ==
    IF line_start = startLine
    THEN m.start - startChar
    ELSE m.start - RFindNL(start_text, m.start) - 1

\* lines 165 and 173-182
GroupOf(lns, line_start, char_start, length) ==
    ContentGroup(PySlice(lns[line_start], char_start, char_start + length),
                 line_start, char_start, char_start + length, <<line_start>>)

MatchOnLine(lns, start_text, m, line_start, startLine, startChar) ==
    GroupOf(lns, line_start,
            MatchColumn(start_text, m, line_start, startLine, startChar),
            m.end - m.start)

\* the ContentGroup find_pattern_match builds for one match
MatchGroup(lns, start_text, m, startLine, startChar) ==
    MatchOnLine(lns, start_text, m, startLine + CountNL(start_text, m.start),
                startLine, startChar)

RECURSIVE TryPrefix(_, _, _, _, _, _)
PrefixResult(lns, start_text, patterns, k, startLine, startChar, ms) ==
    IF ms # <<>>
    THEN [labels |-> [j \in 1..Len(ms) |->
                        MatchGroup(lns, start_text, ms[j],
                                   startLine, startChar)],
          idx |-> k - 1]
    ELSE TryPrefix(lns, start_text, patterns, k - 1, startLine, startChar)

\* the loop of lines 141-188 with current_pattern_idx = k
TryPrefix(lns, start_text, patterns, k, startLine, startChar) ==
    IF k = 0 THEN [labels |-> <<>>, idx |-> 0]
    ELSE PrefixResult(lns, start_text, patterns, k, startLine, startChar,
                      FindIter(start_text, SubSeq(patterns, 1, k), 1))

\* the search trying the first pattern alone
SearchFrom_first_only(lns, patterns, startLine, startChar) ==
    TryPrefix(lns, PyFrom(Join(PyFrom(lns, startLine - 1)), startChar),
              patterns, Min(1, Len(patterns)), startLine, startChar)

\* lines 135-188 on the lines of the expanded text
SearchFrom(lns, patterns, startLine, startChar) ==
    TryPrefix(lns, PyFrom(Join(PyFrom(lns, startLine - 1)), startChar),
              patterns, Len(patterns), startLine, startChar)

\* find_pattern_match(text, patterns, start_line, start_char); labels = <<>>
\* stands for None
find_pattern_match(txt, patterns, startLine, startChar) ==
    SearchFrom(Split(ExpandTabs(txt)), patterns, startLine, startChar)

----------------------------------------------------------------------------
(* choose_best_label, choose_best_label_continuation, find_label *)

StartsWith(s, c) == Len(s) > 0 /\ s[1] = c

EndsWith(s, c) == Len(s) > 0 /\ s[Len(s)] = c

\* min(group, key=line_start): the first element with the least line_start
MinLineStart(group) ==
    group[CHOOSE i \in 1..Len(group) :
              /\ \A j \in 1..Len(group) :
                     group[i].line_start <= group[j].line_start
              /\ \A j \in 1..(i - 1) :
                     group[j].line_start > group[i].line_start]

\* the label is in parentheses
InParens(g) == StartsWith(g.content, "(") /\ EndsWith(g.content, ")")

\* the label ends with a colon
EndsColon(g) == ~InParens(g) /\ EndsWith(g.content, ":")

Plain(g) == ~InParens(g) /\ ~EndsColon(g)

\* lines 240-252
SelectGroup(priority_1, priority_2, priority_3) ==
    IF priority_1 # <<>> THEN MinLineStart(priority_1)
    ELSE IF priority_2 # <<>> THEN MinLineStart(priority_2)
    ELSE MinLineStart(priority_3)

\* choose_best_label preferring the labels that end with a colon
choose_best_label_colon_first(starts) ==
    IF Len(starts) = 1 THEN starts[1]
    ELSE SelectGroup(SelectSeq(starts, EndsColon),
                     SelectSeq(starts, InParens),
                     SelectSeq(starts, Plain))

choose_best_label(starts) ==
    IF Len(starts) = 1 THEN starts[1]
    ELSE SelectGroup(SelectSeq(starts, InParens),
                     SelectSeq(starts, EndsColon),
                     SelectSeq(starts, Plain))

\* the sort key of a continuation, compared lexicographically
ContKey(cur, c) ==
    <<c.line_start - cur.line_end, Abs(c.char_start - cur.char_start)>>

KeyLess(a, b) == a[1] < b[1] \/ (a[1] = b[1] /\ a[2] < b[2])

\* ordered[0]: the first candidate with the least key (the sort is stable)
FirstOrdered(cur, conts) ==
    conts[CHOOSE i \in 1..Len(conts) :
              /\ \A j \in 1..Len(conts) :
                     ~KeyLess(ContKey(cur, conts[j]), ContKey(cur, conts[i]))
              /\ \A j \in 1..(i - 1) :
                     KeyLess(ContKey(cur, conts[i]), ContKey(cur, conts[j]))]

\* the test of line 279 left out
AcceptBest_any(cur, best) == [found |-> TRUE, group |-> best]

\* lines 276-282
AcceptBest(cur, best) ==
    IF best.line_start - cur.line_end > 1
    THEN [found |-> FALSE, group |-> best]
    ELSE [found |-> TRUE, group |-> best]

\* choose_best_label_continuation; found = FALSE stands for None
choose_best_label_continuation(cur, conts) ==
    IF conts = <<>> THEN [found |-> FALSE, group |-> cur]
    ELSE AcceptBest(cur, FirstOrdered(cur, conts))

\* the patterns find_label builds from the word patterns
LabelPatterns(words) ==
    [i \in 1..Len(words) |->
        IF i = 1 THEN [open |-> TRUE, word |-> words[i], close |-> FALSE]
        ELSE IF i = Len(words)
        THEN [open |-> FALSE, word |-> words[i], close |-> TRUE]
        ELSE [open |-> FALSE, word |-> words[i], close |-> FALSE]]

\* None as the result of find_label
NoLabel == [found |-> FALSE, group |-> ContentGroup(<<>>, 0, 0, 0, <<>>)]

\* lines 345-348: the label grown by the continuation n
Grow(cur, n) ==
    [content |-> cur.content \o <<" ">> \o n.content,
     line_start |-> cur.line_start,
     char_start |-> Min(cur.char_start, n.char_start),
     char_end |-> Max(cur.char_end, n.char_end),
     line_end |-> n.line_end]

\* the while loop of find_label stopped without a full label
Stopped(cur, remaining) ==
    [done |-> FALSE, label |-> cur, remaining |-> remaining]

RECURSIVE Continue(_, _, _, _, _)
\* lines 351-359
Accepted(txt, grown, n, rest) ==
    IF rest = <<>>
    THEN [done |-> TRUE, label |-> grown, remaining |-> rest]
    ELSE Continue(txt, grown, n.line_end, n.char_end, rest)

\* lines 341-355
Chosen(txt, cur, remaining, idx, next) ==
    IF ~next.found THEN Stopped(cur, remaining)
    ELSE Accepted(txt, Grow(cur, next.group), next.group,
                  PyFrom(remaining, idx + 1))

\* lines 337-341
Continued(txt, cur, remaining, r) ==
    IF r.labels = <<>> THEN Stopped(cur, remaining)
    ELSE Chosen(txt, cur, remaining, r.idx,
                choose_best_label_continuation(cur, r.labels))

\* the while loop of find_label for one candidate start
Continue(txt, cur, cursor_line, cursor_char, remaining) ==
    IF remaining = <<>> THEN Stopped(cur, remaining)
    ELSE Continued(txt, cur, remaining,
                   find_pattern_match(txt, remaining, cursor_line,
                                      cursor_char))

RECURSIVE ForStarts(_, _, _, _)
NextStart(txt, starts, i, c) ==
    IF c.done THEN [found |-> TRUE, group |-> c.label]
    ELSE ForStarts(txt, starts, i + 1, c.remaining)

\* the for loop of find_label over the candidate starts; remaining_patterns
\* is carried from one candidate to the next
ForStarts(txt, starts, i, remaining) ==
    IF i > Len(starts) THEN NoLabel
    ELSE NextStart(txt, starts, i,
                   Continue(txt, starts[i], starts[i].line_start,
                            starts[i].char_end, remaining))

\* lines 316-361
Assemble(txt, patterns, first) ==
    IF first.labels = <<>> THEN NoLabel
    ELSE IF first.idx = Len(patterns) - 1
    THEN [found |-> TRUE, group |-> choose_best_label(first.labels)]
    ELSE ForStarts(txt, first.labels, 1, PyFrom(patterns, first.idx + 1))

\* lines 315-361
AssembleFrom(txt, patterns) ==
    Assemble(txt, patterns, find_pattern_match(txt, patterns, 1, 0))

\* find_label(text, label_word_patterns); found = FALSE stands for None
find_label(txt, words) == AssembleFrom(txt, LabelPatterns(words))

----------------------------------------------------------------------------
(* find_value *)

\* line_search_limit is [type, items]: type "None", or the Python type of
\* the argument ("tuple", "list", "set") with its elements

\* the test of lines 431-432 without the isinstance check
RaisesValueError_len_only(limit) ==
    limit.type # "None" /\ Len(limit.items) # 2

\* the test of lines 431-432: does find_value raise ValueError
RaisesValueError(limit) ==
    /\ limit.type # "None"
    /\ (limit.type \notin {"list", "tuple"} \/ Len(limit.items) # 2)

\* start_line of lines 435 and 439
StartLine(limit, lab) ==
    IF limit.type = "None" THEN 0
    ELSE Max(0, lab.line_start - limit.items[1])

\* end_line stopping at the label's last line
EndLine_no_below(limit, lab, lns) ==
    IF limit.type = "None" THEN Len(lns)
    ELSE Min(Len(lns), lab.line_end)

\* end_line of lines 436 and 440
EndLine(limit, lab, lns) ==
    IF limit.type = "None" THEN Len(lns)
    ELSE Min(Len(lns), lab.line_end + limit.items[2])

\* search_lines of lines 437 and 441
SearchLines(limit, lab, lns) ==
    IF limit.type = "None" THEN lns
    ELSE PySlice(lns, StartLine(limit, lab), EndLine(limit, lab, lns))

RECURSIVE ClassRun(_, _, _)
\* length of the run of characters of cls starting at p
ClassRun(s, p, cls) ==
    IF p <= Len(s) /\ s[p] \in cls THEN 1 + ClassRun(s, p + 1, cls) ELSE 0

RECURSIVE ValueMatches(_, _, _)
NextValue(ln, cls, p, n) ==
    IF n = 0 THEN ValueMatches(ln, cls, p + 1)
    ELSE <<[start |-> p - 1, end |-> p - 1 + n]>>
         \o ValueMatches(ln, cls, p + n)

\* re.finditer(value_pattern, line): the maximal runs of the class
ValueMatches(ln, cls, p) ==
    IF p > Len(ln) THEN <<>>
    ELSE NextValue(ln, cls, p, ClassRun(ln, p, cls))

\* the test of line 449 left out
KeepsValue_all(value, lab) == TRUE

\* the test of line 449: is the match kept as a candidate
KeepsValue(value, lab) == ~IsSubstring(value, lab.content)

\* lines 447-452: the candidates among the matches ms of a line
CandidatesOf(ln, ms, lab, first, i) ==
    SelectSeq([j \in 1..Len(ms) |->
                  ContentGroup(Strip(SubSeq(ln, ms[j].start + 1, ms[j].end)),
                               first + i, ms[j].start, ms[j].end, <<>>)],
              LAMBDA g : KeepsValue(g.content, lab))

\* the inner loop of lines 446-452 for line i (0-based) of search_lines
LineCandidates(ln, cls, lab, first, i) ==
    CandidatesOf(ln, ValueMatches(ln, cls, 1), lab, first, i)

RECURSIVE AllCandidates(_, _, _, _, _)
\* the outer loop of lines 445-452 from line i (0-based) of search_lines on
AllCandidates(sl, cls, lab, first, i) ==
    IF i >= Len(sl) THEN <<>>
    ELSE LineCandidates(sl[i + 1], cls, lab, first, i)
         \o AllCandidates(sl, cls, lab, first, i + 1)

\* the test of line 471 with <= for <
Closer_or_equal(distance, best_distance) == distance <= best_distance

\* the test of line 471
Closer(distance, best_distance) == distance < best_distance

RECURSIVE BestValue(_, _, _, _)
\* lines 469-473 for candidate i at the given distance
Compare(lab, cands, i, best, distance) ==
    IF ~best.found \/ Closer(distance, best.distance)
    THEN BestValue(lab, cands, i + 1,
                   [found |-> TRUE, distance |-> distance,
                    value |-> cands[i].content])
    ELSE BestValue(lab, cands, i + 1, best)

\* the loop of lines 458-473; best.found = FALSE is best_distance = inf
BestValue(lab, cands, i, best) ==
    IF i > Len(cands) THEN best
    ELSE Compare(lab, cands, i, best, boundary_distance(lab, cands[i]))

Pending == [kind |-> "pending", value |-> <<>>]

ReturnNone == [kind |-> "None", value |-> <<>>]

ReturnValue(v) == [kind |-> "value", value |-> v]

Raise(e) == [kind |-> e, value |-> <<>>]

\* line 475
ReturnBest(best) ==
    IF best.value # <<>> THEN ReturnValue(Strip(best.value)) ELSE ReturnNone

\* lines 454-475
Ranked(lab, cands) ==
    IF cands = <<>> THEN ReturnNone
    ELSE ReturnBest(BestValue(lab, cands, 1,
                              [found |-> FALSE, distance |-> 0,
                               value |-> <<>>]))

----------------------------------------------------------------------------
(* Inputs *)

Word(c) == <<c>>

LabelLine == <<"(", "z", " ", "c", ")">>

\* the lines a text is made of
LineSet ==
    { <<>>,
      LabelLine,
      <<"5">>,
      <<"7">>,
      <<"5", " ", "7", TAB, "5">> }

Digits == {"5", "7"}

WordChars == Digits \cup {"z", "c"}

\* the value patterns: \d+ and \w+
ValuePatterns == {Digits, WordChars}

WordPatternLists == { <<Word("z"), Word("c")>> }

Texts ==
    UNION { { Join(ls) : ls \in [1..n -> LineSet] } : n \in 1..MaxLines }

Limits ==
    {[type |-> "None", items |-> <<>>]}
    \cup {[type |-> "tuple", items |-> <<a, b>>] : a, b \in 0..MaxWin}
    \cup {[type |-> "tuple", items |-> <<-1, 1>>],
          [type |-> "tuple", items |-> <<1, -1>>],
          [type |-> "tuple", items |-> <<1, 2, 3>>],
          [type |-> "list", items |-> <<1>>],
          [type |-> "set", items |-> <<1, 2>>]}

Spans ==
    { ContentGroup(<<>>, ls, cs, ce, <<le>>) :
        ls \in 0..MaxLine, le \in 0..MaxLine, cs \in 0..MaxCol, ce \in 0..MaxCol }

ValidSpans == { g \in Spans : g.line_start <= g.line_end /\ g.char_start <= g.char_end }

----------------------------------------------------------------------------
(* find_value_by_label, step by step *)

IdleDist ==
    /\ group1 = ContentGroup(<<>>, 0, 0, 0, <<>>)
    /\ group2 = ContentGroup(<<>>, 0, 0, 0, <<>>)
    /\ d12 = 0
    /\ d21 = 0

\* the coordinate normalizer is not called
IdleNorm ==
    /\ line = <<>>
    /\ tabsize = TabSize
    /\ orig_index = 0
    /\ mapping = <<>>
    /\ norm_pos = Pending

\* parse_columns is not called
IdleCol ==
    /\ line_num = 0
    /\ norm_extents = <<>>
    /\ reset_boundaries = FALSE
    /\ boundary_estimates = <<>>
    /\ cut_points = <<>>
    /\ max_cols_seen = 0
    /\ all_results = <<>>

\* find_label is not running step by step
IdleLabel ==
    /\ label_starts = <<>>
    /\ first_idx = 0
    /\ start_idx = 0
    /\ current_label = ContentGroup(<<>>, 0, 0, 0, <<>>)
    /\ current_line = 0
    /\ current_char = 0
    /\ remaining_patterns = <<>>
    /\ matches = <<>>
    /\ label_continuations = <<>>
    /\ next_label = NoLabel
    /\ next_idx = 0

Init ==
    /\ pc = "call"
    /\ IdleDist
    /\ IdleLabel
    /\ IdleNorm
    /\ IdleCol
    /\ text \in Texts
    /\ label_word_patterns \in WordPatternLists
    /\ value_pattern \in ValuePatterns
    /\ line_search_limit \in Limits
    /\ label = NoLabel
    /\ lines = <<>>
    /\ start_line = 0
    /\ search_lines = <<>>
    /\ scanned = 0
    /\ value_positions = <<>>
    /\ result = Pending

\* find_value_by_label, lines 417-421: the label is looked up first
FindLabel ==
    /\ pc = "call"
    /\ label' = find_label(text, label_word_patterns)
    /\ IF label'.found
       THEN /\ lines' = Split(ExpandTabs(text))
            /\ pc' = "find_value"
            /\ result' = result
       ELSE /\ lines' = lines
            /\ pc' = "done"
            /\ result' = ReturnNone
    /\ UNCHANGED <<distVars, labelVars, normVars, colVars, text, label_word_patterns, value_pattern,
                   line_search_limit, start_line, search_lines, scanned,
                   value_positions>>

\* find_value, lines 431-441: the window
CheckWindow ==
    /\ pc = "find_value"
    /\ IF RaisesValueError(line_search_limit)
       THEN /\ pc' = "raised"
            /\ result' = Raise("ValueError")
            /\ UNCHANGED <<start_line, search_lines>>
       ELSE /\ pc' = "scan"
            /\ start_line' = StartLine(line_search_limit, label.group)
            /\ search_lines' = SearchLines(line_search_limit, label.group, lines)
            /\ result' = result
    /\ UNCHANGED <<distVars, labelVars, normVars, colVars, text, label_word_patterns, value_pattern,
                   line_search_limit, label, lines, scanned, value_positions>>

\* find_value, lines 444-452: every line of search_lines, in order
Scan ==
    /\ pc = "scan"
    /\ scanned = 0
    /\ value_positions' = AllCandidates(search_lines, value_pattern,
                                        label.group, start_line, 0)
    /\ scanned' = Len(search_lines)
    /\ pc' = "rank"
    /\ UNCHANGED <<distVars, labelVars, normVars, colVars, text, label_word_patterns, value_pattern,
                   line_search_limit, label, lines, start_line, search_lines,
                   result>>

\* find_value, lines 454-475: the nearest candidate
Rank ==
    /\ pc = "rank"
    /\ result' = Ranked(label.group, value_positions)
    /\ pc' = "done"
    /\ UNCHANGED <<distVars, labelVars, normVars, colVars, text, label_word_patterns, value_pattern,
                   line_search_limit, label, lines, start_line, search_lines,
                   scanned, value_positions>>

Next == FindLabel \/ CheckWindow \/ Scan \/ Rank

Spec == Init /\ [][Next]_vars

----------------------------------------------------------------------------
(* boundary_distance on pairs of spans *)

IdleFind ==
    /\ text = <<>>
    /\ label_word_patterns = <<>>
    /\ value_pattern = {}
    /\ line_search_limit = [type |-> "None", items |-> <<>>]
    /\ label = NoLabel
    /\ lines = <<>>
    /\ start_line = 0
    /\ search_lines = <<>>
    /\ scanned = 0
    /\ value_positions = <<>>
    /\ result = Pending

InitDist ==
    /\ pc = "dist"
    /\ group1 \in ValidSpans
    /\ group2 \in ValidSpans
    /\ d12 = 0
    /\ d21 = 0
    /\ IdleFind
    /\ IdleLabel
    /\ IdleNorm
    /\ IdleCol

\* boundary_distance(group1, group2)
Measure ==
    /\ pc = "dist"
    /\ d12' = boundary_distance(group1, group2)
    /\ pc' = "dist_swapped"
    /\ UNCHANGED <<group1, group2, d21, findVars, labelVars, normVars, colVars>>

\* boundary_distance(group2, group1)
MeasureSwapped ==
    /\ pc = "dist_swapped"
    /\ d21' = boundary_distance(group2, group1)
    /\ pc' = "dist_done"
    /\ UNCHANGED <<group1, group2, d12, findVars, labelVars, normVars, colVars>>

NextDist == Measure \/ MeasureSwapped

SpecDist == InitDist /\ [][NextDist]_vars

----------------------------------------------------------------------------
(* Properties of boundary_distance, checked under SpecDist *)

\* the line ranges [line_start, line_end] share a line
LinesOverlap(a, b) == a.line_start <= b.line_end /\ b.line_start <= a.line_end

\* the half-open character ranges [char_start, char_end) share a column
CharsOverlap(a, b) == a.char_start < b.char_end /\ b.char_start < a.char_end

NonEmpty(a) == a.char_start < a.char_end

\* C1: boundary_distance is symmetric: for every pair of spans with
\* line_start <= line_end and char_start <= char_end, the distance from
\* group1 to group2 equals the distance from group2 to group1.
C1_Symmetric == pc = "dist_done" => d12 = d21

\* both orders measured for two spans apart in both directions, the second
\* one spanning several lines
C1_Witness ==
    /\ pc = "dist_done"
    /\ group2.line_end < group1.line_start
    /\ group2.line_start < group2.line_end
    /\ group2.char_end < group1.char_start
    /\ d12 > 0

\* C2: the distance is 0 if and only if the line ranges overlap and the
\* half-open character ranges overlap (spans that only touch do not overlap).
C2_ZeroIffOverlap ==
    (pc = "dist_done" /\ NonEmpty(group1) /\ NonEmpty(group2))
        => (d12 = 0 <=> (LinesOverlap(group1, group2)
                          /\ CharsOverlap(group1, group2)))

\* C3 as stated: with overlapping character ranges and group1 entirely above
\* group2, the distance is the number of lines strictly between the spans.
C3_LinesBetween ==
    (/\ pc = "dist_done"
     /\ CharsOverlap(group1, group2)
     /\ group1.line_end < group2.line_start)
        => d12 = group2.line_start - group1.line_end - 1

\* C3 amended: with overlapping character ranges and group1 entirely above
\* group2, the distance is group2.line_start - group1.line_end, one more than
\* the number of lines strictly between the spans (adjacent lines: 1).
C3_LineDifference ==
    (/\ pc = "dist_done"
     /\ CharsOverlap(group1, group2)
     /\ group1.line_end < group2.line_start)
        => d12 = group2.line_start - group1.line_end

\* group1 ends on the line right above group2 and the distance is 1
C3_Witness ==
    /\ pc = "dist_done"
    /\ CharsOverlap(group1, group2)
    /\ group1.line_end + 1 = group2.line_start
    /\ d12 = 1

----------------------------------------------------------------------------
(* Properties of find_value_by_label and find_value, checked under Spec *)

Lab == label.group

\* find_value was entered (the label was found)
InFindValue == label.found /\ pc \in {"scan", "rank", "done", "raised"}

\* find_value returned
Returned == label.found /\ pc = "done"

\* the window is a pair of non-negative numbers
WindowIsPair ==
    /\ line_search_limit.type \in {"tuple", "list"}
    /\ Len(line_search_limit.items) = 2
    /\ line_search_limit.items[1] >= 0
    /\ line_search_limit.items[2] >= 0

lines_above == line_search_limit.items[1]

lines_below == line_search_limit.items[2]

\* the label stands on one line
OneLineLabel == Lab.line_start = Lab.line_end

\* the text of a match of the value pattern on a line
MatchText(ln, m) == SubSeq(ln, m.start + 1, m.end)

\* every match of the value pattern in the document that is not a substring
\* of the label text, with its document line (the first line is line 1)
DocMatches ==
    UNION { LET ms == ValueMatches(lines[n], value_pattern, 1)
            IN { [line |-> n, start |-> ms[j].start, end |-> ms[j].end,
                  value |-> MatchText(lines[n], ms[j])] : j \in 1..Len(ms) } :
            n \in 1..Len(lines) }

EligibleMatches == { m \in DocMatches : ~IsSubstring(m.value, Lab.content) }

\* the document line of the label: find_label numbers lines from 1
LabelFirstLine == Lab.line_start

LabelLastLine == Lab.line_end

\* the window of the specification, in document lines
InWindow(m) ==
    /\ LabelFirstLine - lines_above <= m.line
    /\ m.line <= LabelLastLine + lines_below

\* the document line of a candidate: find_value numbers lines from 0
CandidateLine(c) == c.line_start + 1

\* the match was taken as a candidate
IsCandidate(m) ==
    \E i \in 1..Len(value_positions) :
        /\ CandidateLine(value_positions[i]) = m.line
        /\ value_positions[i].char_start = m.start
        /\ value_positions[i].char_end = m.end

LinesAway(c) == Abs(CandidateLine(c) - LabelFirstLine)

\* C4: nearest candidate wins regardless of direction: with a one-line label
\* and two candidates whose columns overlap the label's, one nearer in lines
\* than the other (above or below), the nearer one is returned.
C4_NearestWins ==
    (/\ Returned
     /\ OneLineLabel
     /\ Len(value_positions) = 2
     /\ CharsOverlap(value_positions[1], Lab)
     /\ CharsOverlap(value_positions[2], Lab))
        => /\ LinesAway(value_positions[1]) < LinesAway(value_positions[2])
                => result = ReturnValue(value_positions[1].content)
           /\ LinesAway(value_positions[2]) < LinesAway(value_positions[1])
                => result = ReturnValue(value_positions[2].content)

\* C5: with a window (lines_above, lines_below) a match is a candidate if and
\* only if its document line lies between the label's first line minus
\* lines_above and the label's last line plus lines_below, inclusive.
C5_WindowExact ==
    (Returned /\ WindowIsPair)
        => \A m \in EligibleMatches : IsCandidate(m) <=> InWindow(m)

AllMatchesInLabel ==
    \A i \in 1..Len(search_lines) :
        LET ms == ValueMatches(search_lines[i], value_pattern, 1)
        IN \A j \in 1..Len(ms) :
              IsSubstring(MatchText(search_lines[i], ms[j]), Lab.content)

SomeMatchSearched ==
    \E i \in 1..Len(search_lines) :
        ValueMatches(search_lines[i], value_pattern, 1) # <<>>

\* C7: find_value never returns a value whose text is a substring of the
\* label text, no candidate is such a substring, and when every match in the
\* window is such a substring the result is None.
C7_NeverLabelText ==
    Returned
        => /\ result.kind = "value" => ~IsSubstring(result.value, Lab.content)
           /\ \A i \in 1..Len(value_positions) :
                  ~IsSubstring(value_positions[i].content, Lab.content)
           /\ AllMatchesInLabel => result = ReturnNone

\* the searched lines hold matches, all of them part of the label text, and
\* nothing was found
C7_Witness ==
    /\ Returned
    /\ SomeMatchSearched
    /\ AllMatchesInLabel
    /\ result = ReturnNone

\* the candidates are in scan order: by line, then by column
ScanOrdered ==
    \A i, j \in 1..Len(value_positions) :
        i < j => \/ value_positions[i].line_start < value_positions[j].line_start
                 \/ /\ value_positions[i].line_start = value_positions[j].line_start
                    /\ value_positions[i].char_start < value_positions[j].char_start

\* the first candidate, in scan order, at the minimum distance from the label
FirstNearest ==
    LET dist == [i \in 1..Len(value_positions) |->
                    boundary_distance(Lab, value_positions[i])]
    IN CHOOSE i \in 1..Len(value_positions) :
           /\ \A j \in 1..Len(value_positions) : dist[j] >= dist[i]
           /\ \A j \in 1..(i - 1) : dist[j] > dist[i]

\* C8: when several candidates are at the same minimum distance from the
\* label, find_value returns the first of them in scan order (lowest line,
\* then leftmost).
C8_FirstOfTies ==
    (Returned /\ value_positions # <<>>)
        => /\ ScanOrdered
           /\ result = ReturnValue(value_positions[FirstNearest].content)

\* two candidates with different texts at the minimum distance; the earlier
\* one was returned
C8_Witness ==
    /\ Returned
    /\ \E i, j \in 1..Len(value_positions) :
          /\ i = FirstNearest
          /\ i < j
          /\ boundary_distance(Lab, value_positions[j])
                 = boundary_distance(Lab, value_positions[i])
          /\ value_positions[i].content # value_positions[j].content
          /\ result = ReturnValue(value_positions[i].content)

\* the argument is neither None nor a list or tuple of two elements
MalformedWindow ==
    /\ line_search_limit.type # "None"
    /\ ~(/\ line_search_limit.type \in {"list", "tuple"}
         /\ Len(line_search_limit.items) = 2)

\* C9: find_value raises ValueError whenever line_search_limit is not None
\* and is not a list or tuple of two elements, and raises before any line is
\* scanned for value matches.
C9_MalformedRaises ==
    InFindValue
        => /\ MalformedWindow => (pc = "raised" /\ result = Raise("ValueError"))
           /\ pc = "raised" => (/\ MalformedWindow
                                /\ scanned = 0
                                /\ search_lines = <<>>
                                /\ value_positions = <<>>)

\* a two-element argument that is no list or tuple was rejected unscanned
C9_Witness ==
    /\ InFindValue
    /\ line_search_limit.type = "set"
    /\ Len(line_search_limit.items) = 2
    /\ pc = "raised"
    /\ result = Raise("ValueError")
    /\ scanned = 0

\* C10: a two-element window with a negative lines_above or lines_below is
\* rejected with an invalid-argument error instead of being used to slice
\* the document.
C10_NegativeRejected ==
    (/\ InFindValue
     /\ line_search_limit.type \in {"tuple", "list"}
     /\ Len(line_search_limit.items) = 2
     /\ (line_search_limit.items[1] < 0 \/ line_search_limit.items[2] < 0))
        => pc = "raised"

\* find_value_by_label returned or raised
CallEnded == pc \in {"done", "raised"}

\* C11: an invalid window fails fast in the public entry point: called with
\* a line_search_limit that is not a list or tuple of two elements,
\* find_value_by_label raises the error whether or not the label occurs in
\* the text, and never returns "not found".
C11_InvalidWindowFailsFast ==
    (CallEnded /\ MalformedWindow) => result = Raise("ValueError")

----------------------------------------------------------------------------
(* choose_best_label on candidate lists *)

\* the texts of the candidates: in parentheses (two wordings), ending with a
\* colon, plain, and with an opening parenthesis only
CandidateTexts ==
    { <<"(", "F", ")">>, <<"(", "G", ")">>, <<"F", ":">>, <<"F">>,
      <<"(", "F">> }

Candidates ==
    { ContentGroup(t, ls, 0, Len(t), <<ls>>) :
        t \in CandidateTexts, ls \in 1..MaxCandLine }

CandidateLists == UNION { [1..n -> Candidates] : n \in 1..MaxCands }

\* the find_value_by_label variables are not in use
IdleValue ==
    /\ value_pattern = {}
    /\ line_search_limit = [type |-> "None", items |-> <<>>]
    /\ lines = <<>>
    /\ start_line = 0
    /\ search_lines = <<>>
    /\ scanned = 0
    /\ value_positions = <<>>
    /\ result = Pending

InitChoose ==
    /\ pc = "choose"
    /\ IdleDist
    /\ IdleNorm
    /\ IdleCol
    /\ IdleValue
    /\ text = <<>>
    /\ label_word_patterns = <<>>
    /\ label = NoLabel
    /\ label_starts \in CandidateLists
    /\ first_idx = 0
    /\ start_idx = 0
    /\ current_label = ContentGroup(<<>>, 0, 0, 0, <<>>)
    /\ current_line = 0
    /\ current_char = 0
    /\ remaining_patterns = <<>>
    /\ matches = <<>>
    /\ label_continuations = <<>>
    /\ next_label = NoLabel
    /\ next_idx = 0

\* choose_best_label(label_starts)
Choose ==
    /\ pc = "choose"
    /\ label' = [found |-> TRUE, group |-> choose_best_label(label_starts)]
    /\ pc' = "chosen"
    /\ UNCHANGED <<distVars, normVars, colVars, text, label_word_patterns, value_pattern,
                   line_search_limit, lines, start_line, search_lines,
                   scanned, value_positions, result, labelVars>>

NextChoose == Choose

SpecChoose == InitChoose /\ [][NextChoose]_vars

----------------------------------------------------------------------------
(* Properties of choose_best_label, checked under SpecChoose *)

\* the priority class of a candidate: 1 in parentheses, 2 ending with a
\* colon, 3 all others
PriorityClass(g) ==
    IF StartsWith(g.content, "(") /\ EndsWith(g.content, ")") THEN 1
    ELSE IF EndsWith(g.content, ":") THEN 2
    ELSE 3

\* the highest class that has a candidate
BestClass ==
    CHOOSE k \in 1..3 :
        /\ \E i \in 1..Len(label_starts) : PriorityClass(label_starts[i]) = k
        /\ \A i \in 1..Len(label_starts) : PriorityClass(label_starts[i]) >= k

\* C12: choose_best_label applies Label Priority: for any non-empty candidate
\* list it returns a candidate of the highest non-empty class (in
\* parentheses, then ending with a colon, then all others), and within that
\* class one with the lowest line_start.
C12_LabelPriority ==
    pc = "chosen"
        => /\ \E i \in 1..Len(label_starts) : label_starts[i] = label.group
           /\ PriorityClass(label.group) = BestClass
           /\ \A i \in 1..Len(label_starts) :
                  PriorityClass(label_starts[i]) = BestClass
                      => label.group.line_start <= label_starts[i].line_start

\* a candidate ending with a colon on line 1 comes first, then a late one in
\* parentheses and an earlier one in parentheses; the last one was chosen
C12_Witness ==
    /\ pc = "chosen"
    /\ Len(label_starts) = 3
    /\ PriorityClass(label_starts[1]) = 2
    /\ label_starts[1].line_start = 1
    /\ PriorityClass(label_starts[2]) = 1
    /\ PriorityClass(label_starts[3]) = 1
    /\ label_starts[3].line_start = 2
    /\ label_starts[2].line_start = 3
    /\ label.group = label_starts[3]

----------------------------------------------------------------------------
(* find_label, step by step *)

\* the lines of the texts searched for a label over the words z, b, c: the
\* label on one line, its first word ending a line, its last word on a line
\* of its own, and lines with another word after the first
LabelLineSet ==
    { <<>>,
      LabelLine,
      <<"(", "z">>,
      <<"c", ")">>,
      <<"(", "z", " ", "x">>,
      <<"z", " ", "x", " ", "b">>,
      <<"z", " ", "x", " ", "c">>,
      <<"b">> }

LabelTexts ==
    UNION { { Join(ls) : ls \in [1..n -> LabelLineSet] } :
            n \in 1..MaxLabelLines }

LabelWordLists ==
    { <<Word("z"), Word("c")>>, <<Word("z"), Word("b"), Word("c")>> }

\* start_text of lines 135-138
StartText(lns, startLine, startChar) ==
    PyFrom(Join(PyFrom(lns, startLine - 1)), startChar)

\* matches of line 144 for the pattern prefix find_pattern_match returned
MatchesOf(txt, patterns, startLine, startChar, r) ==
    IF r.labels = <<>> THEN <<>>
    ELSE FindIter(StartText(Split(ExpandTabs(txt)), startLine, startChar),
                  SubSeq(patterns, 1, r.idx + 1), 1)

InitLabel ==
    /\ pc = "find_label"
    /\ IdleDist
    /\ IdleNorm
    /\ IdleCol
    /\ IdleValue
    /\ IdleLabel
    /\ text \in LabelTexts
    /\ label_word_patterns \in LabelWordLists
    /\ label = NoLabel

\* lines 315-324 for the result r of the first search
StartsFound(patterns, r) ==
    /\ matches' = MatchesOf(text, patterns, 1, 0, r)
    /\ label_starts' = r.labels
    /\ first_idx' = r.idx
    /\ IF r.labels = <<>>
       THEN /\ pc' = "label_done"
            /\ label' = NoLabel
            /\ remaining_patterns' = remaining_patterns
       ELSE IF r.idx = Len(patterns) - 1
       THEN /\ pc' = "label_done"
            /\ label' = [found |-> TRUE, group |-> choose_best_label(r.labels)]
            /\ remaining_patterns' = remaining_patterns
       ELSE /\ pc' = "for"
            /\ label' = label
            /\ remaining_patterns' = PyFrom(patterns, r.idx + 1)

\* find_label, lines 298-324: the patterns and the first search
FindStarts ==
    /\ pc = "find_label"
    /\ StartsFound(LabelPatterns(label_word_patterns),
                   find_pattern_match(text, LabelPatterns(label_word_patterns),
                                      1, 0))
    /\ UNCHANGED <<distVars, normVars, colVars, text, label_word_patterns, value_pattern,
                   line_search_limit, lines, start_line, search_lines,
                   scanned, value_positions, result, start_idx,
                   current_label, current_line, current_char,
                   label_continuations, next_label, next_idx>>

\* find_label, lines 327-329 and 361: the next candidate start, or None
\* after the last one
NextCandidate ==
    /\ pc = "for"
    /\ IF start_idx >= Len(label_starts)
       THEN /\ pc' = "label_done"
            /\ label' = NoLabel
            /\ UNCHANGED <<start_idx, current_label, current_line,
                           current_char>>
       ELSE /\ pc' = "while"
            /\ label' = label
            /\ start_idx' = start_idx + 1
            /\ current_label' = label_starts[start_idx + 1]
            /\ current_line' = label_starts[start_idx + 1].line_start
            /\ current_char' = label_starts[start_idx + 1].char_end
    /\ UNCHANGED <<distVars, normVars, colVars, text, label_word_patterns, value_pattern,
                   line_search_limit, lines, start_line, search_lines,
                   scanned, value_positions, result, label_starts, first_idx,
                   remaining_patterns, matches, label_continuations,
                   next_label, next_idx>>

\* lines 345-359: the continuation n is stitched to the label
Stitch(n, rest) ==
    /\ current_label' = Grow(current_label, n)
    /\ current_line' = n.line_end
    /\ current_char' = n.char_end
    /\ remaining_patterns' = rest
    /\ IF rest = <<>>
       THEN /\ pc' = "label_done"
            /\ label' = [found |-> TRUE, group |-> Grow(current_label, n)]
       ELSE /\ pc' = "while"
            /\ label' = label

\* lines 338 and 343: break
Break ==
    /\ pc' = "for"
    /\ UNCHANGED <<label, current_label, current_line, current_char,
                   remaining_patterns>>

\* lines 341-359 for the continuation chosen
Stitched(r, chosen) ==
    /\ next_label' = IF chosen.found THEN chosen ELSE NoLabel
    /\ IF chosen.found
       THEN Stitch(chosen.group, PyFrom(remaining_patterns, r.idx + 1))
       ELSE Break

\* lines 336-359 for the result r of the search
Searched(r) ==
    /\ matches' = MatchesOf(text, remaining_patterns, current_line,
                            current_char, r)
    /\ label_continuations' = r.labels
    /\ next_idx' = r.idx
    /\ IF r.labels = <<>>
       THEN next_label' = next_label /\ Break
       ELSE Stitched(r, choose_best_label_continuation(current_label,
                                                       r.labels))

\* find_label, lines 335-359: one turn of the while loop
ContinueLabel ==
    /\ pc = "while"
    /\ IF remaining_patterns = <<>>
       THEN /\ Break
            /\ UNCHANGED <<matches, label_continuations, next_label,
                           next_idx>>
       ELSE Searched(find_pattern_match(text, remaining_patterns,
                                        current_line, current_char))
    /\ UNCHANGED <<distVars, normVars, colVars, text, label_word_patterns, value_pattern,
                   line_search_limit, lines, start_line, search_lines,
                   scanned, value_positions, result, label_starts, first_idx,
                   start_idx>>

NextLabel == FindStarts \/ NextCandidate \/ ContinueLabel

SpecLabel == InitLabel /\ [][NextLabel]_vars

\* find_label returned
LabelReturned == pc = "label_done"

\* the steps return what find_label returns
StepsAgree ==
    LabelReturned => label = find_label(text, label_word_patterns)

----------------------------------------------------------------------------
(* Properties of find_label, checked under SpecLabel *)

TextLines == Split(ExpandTabs(text))

\* the label "(z c)" is split over the lines L and L + 1: its first word
\* group stands at the start of line L, its second word group at the start
\* of line L + 1 (aligned with the first), and no other line holds a word
\* of the label
SplitLabelAt(L) ==
    /\ label_word_patterns = <<Word("z"), Word("c")>>
    /\ L + 1 <= Len(TextLines)
    /\ TextLines[L] \in { <<"(", "z">>, <<"(", "z", " ", "x">> }
    /\ TextLines[L + 1] = <<"c", ")">>
    /\ \A n \in 1..Len(TextLines) :
           n \notin {L, L + 1} => TextLines[n] \in { <<>>, <<"b">> }

\* C13: for a text in which the first words of a label stand together on
\* line L and the remaining words stand together on line L + 1, horizontally
\* aligned, find_label returns a label whose text is the first word group,
\* one space, then the second word group, with line_start = L and
\* line_end = L + 1.
C13_SplitLabelJoined ==
    LabelReturned
        => \A L \in 1..MaxLabelLines :
              SplitLabelAt(L)
                  => /\ label.found
                     /\ label.group.content = <<"(", "z", " ", "c", ")">>
                     /\ label.group.line_start = L
                     /\ label.group.line_end = L + 1

\* the while loop is about to run for a candidate start nothing has been
\* stitched to yet
FreshCandidate ==
    /\ pc = "while"
    /\ start_idx >= 1
    /\ current_label = label_starts[start_idx]

\* the patterns the first search left unmatched
PatternsAfterStart ==
    PyFrom(LabelPatterns(label_word_patterns), first_idx + 1)

\* C19: find_label reports success only when the whole pattern sequence was
\* consumed: a label is returned from the continuation loop only with no
\* pattern remaining, and every candidate start begins its continuation with
\* all the patterns the first search left unmatched, never with only a tail
\* left over from another candidate start's failed attempt.
C19_WholeSequenceConsumed ==
    /\ (LabelReturned /\ label.found /\ start_idx >= 1)
           => remaining_patterns = <<>>
    /\ FreshCandidate => remaining_patterns = PatternsAfterStart

\* the text the continuation search runs on, from the cursor on
CursorText == StartText(TextLines, current_line, current_char)

\* the text from the cursor's line on
CursorLines == Join(PyFrom(TextLines, current_line - 1))

\* where the match m of the continuation search starts in CursorLines
MatchOffset(m) == m.start + SliceIdx(Len(CursorLines), current_char)

\* the column of the match m in its own line
ActualColumn(m) == MatchOffset(m) - RFindNL(CursorLines, MatchOffset(m)) - 1

\* the text the match m matched
MatchedText(m) == SubSeq(CursorText, m.start + 1, m.end)

\* the step stitches a continuation to the label
Stitching == pc = "while" /\ pc' \in {"while", "label_done"}

\* the continuation stitched by the step is the span of the match m, with
\* the match's column and text, and the label grows by it
StitchedAs(n, m) ==
    /\ n.char_start = ActualColumn(m)
    /\ 0 <= n.char_start
    /\ n.char_start < n.char_end
    /\ n.content = MatchedText(m)
    /\ current_label'.content
           = current_label.content \o <<" ">> \o MatchedText(m)
    /\ current_label'.char_start = Min(current_label.char_start, n.char_start)
    /\ current_label'.char_end = Max(current_label.char_end, n.char_end)
    /\ current_label'.line_end = n.line_end

\* C20: when find_label accepts a continuation (on the cursor's own line or
\* on the next line), the span found for it has char_start equal to the
\* match's column in its line (0 <= char_start < char_end) and content equal
\* to the matched text, and the label becomes: text = old text, a space, the
\* matched text; char_start = min, char_end = max of both spans; line_end =
\* the continuation's line_end.
C20_ContinuationSpan ==
    [][Stitching
          => \A k \in 1..Len(label_continuations') :
                 label_continuations'[k] = next_label'.group
                     => StitchedAs(next_label'.group, matches'[k])]_vars

----------------------------------------------------------------------------
(* column_parser.py: get_norm_to_orig_map and get_norm_pos *)

\* mapping[k] = v on a dictionary kept as a function
Put(m, k, v) == [x \in DOMAIN m \cup {k} |-> IF x = k THEN v ELSE m[x]]

\* a tab always as wide as tabsize
spaces_to_add_full(t, norm_idx) == t

\* spaces_to_add of lines 53 and 93
spaces_to_add(t, norm_idx) == t - (norm_idx % t)

RECURSIVE PutRange(_, _, _, _)
\* lines 54-55: mapping[norm_idx + i] = orig_idx for i in range(n)
PutRange(m, norm_idx, n, orig_idx) ==
    IF n <= 0 THEN m
    ELSE PutRange(Put(m, norm_idx, orig_idx), norm_idx + 1, n - 1, orig_idx)

RECURSIVE MapChars(_, _, _, _, _)
\* lines 52-57: a tab of n columns
MapTab(ln, t, orig_idx, norm_idx, m, n) ==
    MapChars(ln, t, orig_idx + 1, norm_idx + n,
             PutRange(m, norm_idx, n, orig_idx))

\* the loop of lines 51-62 from the character at orig_idx on
MapChars(ln, t, orig_idx, norm_idx, m) ==
    IF orig_idx >= Len(ln) THEN Put(m, norm_idx, orig_idx)
    ELSE IF ln[orig_idx + 1] = TAB
    THEN MapTab(ln, t, orig_idx, norm_idx, m, spaces_to_add(t, norm_idx))
    ELSE MapChars(ln, t, orig_idx + 1, norm_idx + 1,
                  Put(m, norm_idx, orig_idx))

\* get_norm_to_orig_map(line, tabsize): a function from the normalized
\* indices to the original indices
get_norm_to_orig_map(ln, t) == MapChars(ln, t, 0, 0, <<>>)

\* the test of line 90 taking the index after orig_index
AtIndex_next(i, orig) == i = orig + 1

\* the test of line 90
AtIndex(i, orig) == i = orig

\* the test of line 98 also true beyond the end of the line
AtEnd_or_beyond(ln, orig) == orig >= Len(ln)

\* the test of line 98
AtEnd(ln, orig) == orig = Len(ln)

RECURSIVE NormPosFrom(_, _, _, _, _)
\* the loop of lines 89-96 from the character at i on, then lines 98-101
NormPosFrom(ln, orig, t, i, pos) ==
    IF i >= Len(ln)
    THEN IF AtEnd(ln, orig) THEN ReturnValue(pos) ELSE Raise("IndexError")
    ELSE IF AtIndex(i, orig) THEN ReturnValue(pos)
    ELSE IF ln[i + 1] = TAB
    THEN NormPosFrom(ln, orig, t, i + 1, pos + spaces_to_add(t, pos))
    ELSE NormPosFrom(ln, orig, t, i + 1, pos + 1)

\* get_norm_pos(line, orig_index, tabsize)
get_norm_pos(ln, orig, t) == NormPosFrom(ln, orig, t, 0, 0)

\* the characters of the lines given to the normalizer
NormChars == {"a", " ", TAB}

NormLines == UNION { [1..n -> NormChars] : n \in 0..MaxLineLen }

TabSizes == 1..MaxTab

\* the indices asked for: in the line, its length, and beyond it
OrigIndexes == 0..(MaxLineLen + 2)

InitNorm ==
    /\ pc = "norm"
    /\ IdleDist
    /\ IdleFind
    /\ IdleLabel
    /\ IdleCol
    /\ line \in NormLines
    /\ tabsize \in TabSizes
    /\ orig_index \in OrigIndexes
    /\ mapping = <<>>
    /\ norm_pos = Pending

\* get_norm_to_orig_map(line, tabsize)
BuildMap ==
    /\ pc = "norm"
    /\ mapping' = get_norm_to_orig_map(line, tabsize)
    /\ pc' = "norm_pos"
    /\ UNCHANGED <<distVars, findVars, labelVars, colVars, line, tabsize,
                   orig_index, norm_pos>>

\* get_norm_pos(line, orig_index, tabsize)
NormPos ==
    /\ pc = "norm_pos"
    /\ norm_pos' = get_norm_pos(line, orig_index, tabsize)
    /\ pc' = "norm_done"
    /\ UNCHANGED <<distVars, findVars, labelVars, colVars, line, tabsize,
                   orig_index, mapping>>

NextNorm == BuildMap \/ NormPos

SpecNorm == InitNorm /\ [][NextNorm]_vars

----------------------------------------------------------------------------
(* Properties of the coordinate normalizer, checked under SpecNorm *)

RECURSIVE ColumnOf(_)
\* the tab expansion rule: the normalized column at which the character at
\* the raw index p of line starts; a tab reached at column n takes
\* tabsize - (n mod tabsize) columns, every other character one
WidthAt(p, n) ==
    IF line[p + 1] = TAB THEN tabsize - (n % tabsize) ELSE 1

ColumnAfter(p, n) == n + WidthAt(p, n)

ColumnOf(p) == IF p = 0 THEN 0 ELSE ColumnAfter(p - 1, ColumnOf(p - 1))

\* the normalized length of line
NormLen == ColumnOf(Len(line))

\* the normalized columns mapped to the raw index p
ColumnsOf(p) == { n \in DOMAIN mapping : mapping[n] = p }

MapBuilt == pc \in {"norm_pos", "norm_done"}

NormDone == pc = "norm_done"

InLine == 0 <= orig_index /\ orig_index <= Len(line)

\* C17: the round trip raw -> normalized -> raw never moves forward: for
\* every line, tab width t >= 1 and raw index i with 0 <= i <= len(line),
\* get_norm_to_orig_map(line, t)[get_norm_pos(line, i, t)] is defined and is
\* at most i.
C17_RoundTripNotForward ==
    (NormDone /\ InLine)
        => /\ norm_pos.kind = "value"
           /\ norm_pos.value \in DOMAIN mapping
           /\ mapping[norm_pos.value] <= orig_index

\* the round trip of an index behind a tab that was widened: the column
\* is greater than the index and maps back to it
C17_Witness ==
    /\ NormDone
    /\ InLine
    /\ orig_index < Len(line)
    /\ \E p \in 0..(orig_index - 1) : line[p + 1] = TAB
    /\ norm_pos.kind = "value"
    /\ norm_pos.value > orig_index
    /\ mapping[norm_pos.value] = orig_index

\* C18: get_norm_pos raises IndexError for every raw index greater than
\* len(line) and returns a column, without error, for every index
\* 0..len(line); the index len(line) yields the normalized line length.
C18_OutOfRange ==
    NormDone
        => /\ orig_index > Len(line) => norm_pos.kind = "IndexError"
           /\ InLine => norm_pos.kind = "value"
           /\ orig_index = Len(line) => norm_pos.value = NormLen

\* the index right after the end of a line with a tab was refused
C18_Witness ==
    /\ NormDone
    /\ orig_index = Len(line) + 1
    /\ \E p \in 1..Len(line) : line[p] = TAB
    /\ norm_pos.kind = "IndexError"

----------------------------------------------------------------------------
(* column_parser.py: parse_columns *)

RECURSIVE WordRun(_, _)
\* length of the run of characters that are no whitespace starting at p
WordRun(s, p) ==
    IF p <= Len(s) /\ ~IsSpace(s[p]) THEN 1 + WordRun(s, p + 1) ELSE 0

RECURSIVE GroupEnd(_, _)
\* a single whitespace followed by another word continues the group
GroupEndAfter(s, q) ==
    IF q + 1 <= Len(s) /\ IsSpace(s[q]) /\ ~IsSpace(s[q + 1])
    THEN GroupEnd(s, q + 1) ELSE q

\* the index after the content group whose first word starts at p
GroupEnd(s, p) == GroupEndAfter(s, p + WordRun(s, p))

RECURSIVE ContentGroups(_, _)
NextGroup(s, p, e) ==
    <<[start |-> p - 1, end |-> e - 1]>> \o ContentGroups(s, e)

\* line 216: the matches of words separated by single whitespace characters,
\* from p on, as Python offsets
ContentGroups(s, p) ==
    IF p > Len(s) THEN <<>>
    ELSE IF IsSpace(s[p]) THEN ContentGroups(s, p + 1)
    ELSE NextGroup(s, p, GroupEnd(s, p))

\* match.group().strip()
GroupText(ln, m) == Strip(SubSeq(ln, m.start + 1, m.end))

\* lines 224-225 for one match
Extent(ln, m, t) ==
    [start |-> get_norm_pos(ln, m.start, t), end |-> get_norm_pos(ln, m.end, t)]

\* the extents appended on line 226
Measurable(es) ==
    SelectSeq(es, LAMBDA e : e.start.kind = "value" /\ e.end.kind = "value")

ExtentValues(es) ==
    [j \in 1..Len(es) |-> [start |-> es[j].start.value, end |-> es[j].end.value]]

\* norm_extents of lines 221-229
NormExtents(ln, ms, t) ==
    ExtentValues(Measurable([j \in 1..Len(ms) |-> Extent(ln, ms[j], t)]))

\* lines 244-249
SpansBoundary(e, cuts) ==
    \E k \in 1..Len(cuts) : e.start < cuts[k] /\ cuts[k] < e.end

\* the first-column test of line 259 alone
FitsInColumn_first_only(e, cuts) ==
    e.start >= 0 /\ (Len(cuts) = 0 \/ e.end <= cuts[1])

\* lines 256-270
FitsInColumn(e, cuts) ==
    \/ e.start >= 0 /\ (Len(cuts) = 0 \/ e.end <= cuts[1])
    \/ \E j \in 1..(Len(cuts) - 1) : e.start >= cuts[j] /\ e.end <= cuts[j + 1]
    \/ Len(cuts) > 0 /\ e.start >= cuts[Len(cuts)]

\* the violation check of lines 241-275 left out
ResetBoundaries_never(extents, cuts) == cuts # <<>> /\ FALSE

\* reset_boundaries of lines 235-275
ResetBoundaries(extents, cuts) ==
    /\ cuts # <<>>
    /\ \E i \in 1..Len(extents) :
           SpansBoundary(extents[i], cuts) \/ ~FitsInColumn(extents[i], cuts)

\* the estimate of gap i replaced by the gap gs..ge
Narrowed_replaced(est, i, gs, ge) == <<Max(0, gs), ge>>

\* lines 297-301: the estimate of gap i narrowed by the gap gs..ge
Narrowed(est, i, gs, ge) ==
    IF i \in DOMAIN est
    THEN <<Max(est[i][1], gs), Min(est[i][2], ge)>>
    ELSE <<Max(0, gs), ge>>

\* the test of line 304 left out
Refined_always(est, i, new) == Put(est, i, new)

\* lines 304-305
Refined(est, i, new) == IF new[1] < new[2] THEN Put(est, i, new) ELSE est

\* lines 289-305 for gap i
UpdateGap(est, i, gs, ge) ==
    IF gs >= ge THEN est ELSE Refined(est, i, Narrowed(est, i, gs, ge))

RECURSIVE UpdateEstimates(_, _, _)
\* the loop of lines 288-305 from gap i on
UpdateEstimates(est, extents, i) ==
    IF i >= Len(extents) - 1 THEN est
    ELSE UpdateEstimates(UpdateGap(est, i, extents[i + 1].end,
                                   extents[i + 2].start),
                         extents, i + 1)

\* line 318
CutOf(estimate) == estimate[1] + (estimate[2] - estimate[1]) \div 2

\* the test of line 320
Increases(cuts, cut) == cuts = <<>> \/ cut > cuts[Len(cuts)]

\* the cut put in front of the list
AppendCut_front(cuts, cut) == <<cut>> \o cuts

\* line 321
AppendCut(cuts, cut) == Append(cuts, cut)

RECURSIVE CutsFrom(_, _, _, _)
\* lines 318-325
PlaceCut(est, max_cols, i, cuts, cut) ==
    IF Increases(cuts, cut)
    THEN CutsFrom(est, max_cols, i + 1, AppendCut(cuts, cut))
    ELSE cuts

\* the loop of lines 312-332 from gap i on
CutsFrom(est, max_cols, i, cuts) ==
    IF i >= max_cols - 1 THEN cuts
    ELSE IF i \notin DOMAIN est THEN cuts
    ELSE IF ~(est[i][1] < est[i][2]) THEN cuts
    ELSE PlaceCut(est, max_cols, i, cuts, CutOf(est[i]))

\* the cut points recalculated on every line
Recomputed_always(est, max_cols, cuts, reset) ==
    IF max_cols > 1 THEN CutsFrom(est, max_cols, 0, <<>>) ELSE <<>>

\* lines 309-332
Recomputed(est, max_cols, cuts, reset) ==
    IF cuts = <<>> \/ reset
    THEN IF max_cols > 1 THEN CutsFrom(est, max_cols, 0, <<>>) ELSE <<>>
    ELSE cuts

RECURSIVE ColumnIndex(_, _, _)
\* column_idx of lines 348-356: the cut points from the first on that the
\* content starts at or after
ColumnIndex(start, cuts, j) ==
    IF j <= Len(cuts) /\ start >= cuts[j]
    THEN ColumnIndex(start, cuts, j + 1) ELSE j - 1

\* columns[key] = content unless the content is empty; the key n stands for
\* the string "col" followed by n
PutContent(columns, key, content) ==
    IF content = <<>> THEN columns ELSE Put(columns, key, content)

RECURSIVE ByCuts(_, _, _, _, _, _)
\* the loop of lines 340-360 from content group i on
ByCuts(ln, ms, extents, cuts, i, columns) ==
    IF i > Len(extents) THEN columns
    ELSE ByCuts(ln, ms, extents, cuts, i + 1,
                PutContent(columns,
                           ColumnIndex(extents[i].start, cuts, 1) + 1,
                           GroupText(ln, ms[i])))

RECURSIVE Sequential(_, _, _, _)
\* the loop of lines 364-367 from match i on
Sequential(ln, ms, i, columns) ==
    IF i > Len(ms) THEN columns
    ELSE Sequential(ln, ms, i + 1, PutContent(columns, i, GroupText(ln, ms[i])))

\* the content groups numbered in order whatever the cut points
Columns_sequential(ln, ms, extents, cuts) == Sequential(ln, ms, 1, <<>>)

\* columns of lines 335-367
Columns(ln, ms, extents, cuts) ==
    IF cuts # <<>> THEN ByCuts(ln, ms, extents, cuts, 1, <<>>)
    ELSE Sequential(ln, ms, 1, <<>>)

\* the record put in front of the results
AppendRecord_front(results, columns) ==
    IF DOMAIN columns # {} THEN <<columns>> \o results ELSE results

\* lines 370-371
AppendRecord(results, columns) ==
    IF DOMAIN columns # {} THEN Append(results, columns) ELSE results

\* the lines of the texts given to parse_columns: blank lines, one to three
\* content groups, groups set apart by spaces and by tabs, and a line that
\* starts with spaces
ColumnLineSet ==
    { <<>>,
      <<" ">>,
      <<"a", " ", " ", "b">>,
      <<"c", TAB, "d">>,
      <<"e", TAB, TAB, "f">>,
      <<"g", "g", " ", " ", " ", "h", " ", " ", "i">>,
      <<"j", "j", "j", "j">>,
      <<"k", " ", " ", " ", "l">>,
      <<" ", " ", " ", " ", "m", " ", " ", " ", "n">> }

ColumnTexts ==
    UNION { { Join(ls) : ls \in [1..n -> ColumnLineSet] } :
            n \in 1..MaxColLines }

InitColumns ==
    /\ pc = "parse_columns"
    /\ IdleDist
    /\ IdleLabel
    /\ IdleValue
    /\ text \in ColumnTexts
    /\ label_word_patterns = <<>>
    /\ label = NoLabel
    /\ line = <<>>
    /\ tabsize \in TabSizes
    /\ orig_index = 0
    /\ mapping = <<>>
    /\ norm_pos = Pending
    /\ IdleCol

\* parse_columns, lines 195-201
SplitLines ==
    /\ pc = "parse_columns"
    /\ lines' = Split(text)
    /\ pc' = "for_line"
    /\ UNCHANGED <<distVars, labelVars, normVars, colVars, text,
                   label_word_patterns, value_pattern, line_search_limit,
                   label, start_line, search_lines, scanned, value_positions,
                   result>>

\* a skipped line forgetting the column structure
SkipLine_reset ==
    /\ boundary_estimates' = <<>>
    /\ cut_points' = <<>>
    /\ max_cols_seen' = 0
    /\ UNCHANGED <<all_results, reset_boundaries>>

\* continue: the line leaves the state as it is
SkipLine ==
    UNCHANGED <<boundary_estimates, cut_points, max_cols_seen, all_results,
                reset_boundaries>>

\* lines 278-371 for a line with its matches, extents and reset_boundaries
Checked(ln, ms, extents, reset) ==
    /\ reset_boundaries' = reset
    /\ max_cols_seen'
           = Max(IF reset THEN Len(extents) ELSE max_cols_seen, Len(extents))
    /\ boundary_estimates'
           = UpdateEstimates(IF reset THEN <<>> ELSE boundary_estimates,
                             extents, 0)
    /\ cut_points'
           = Recomputed(boundary_estimates', max_cols_seen',
                        IF reset THEN <<>> ELSE cut_points, reset)
    /\ all_results'
           = AppendRecord(all_results, Columns(ln, ms, extents, cut_points'))

\* lines 231-371
Measured(ln, ms, extents) ==
    /\ norm_extents' = extents
    /\ IF Len(extents) # Len(ms) THEN SkipLine
       ELSE Checked(ln, ms, extents, ResetBoundaries(extents, cut_points))

\* lines 217-371
Matched(ln, ms) ==
    IF ms = <<>> THEN SkipLine /\ UNCHANGED norm_extents
    ELSE Measured(ln, ms, NormExtents(ln, ms, tabsize))

\* lines 206-371
LineTaken(ln) ==
    IF Strip(ln) = <<>> THEN SkipLine /\ UNCHANGED norm_extents
    ELSE Matched(ln, ContentGroups(ln, 1))

\* parse_columns, lines 204-371: one turn of the for loop
ProcessLine ==
    /\ pc = "for_line"
    /\ line_num < Len(lines)
    /\ line_num' = line_num + 1
    /\ LineTaken(lines[line_num + 1])
    /\ UNCHANGED <<pc, distVars, labelVars, normVars, text,
                   label_word_patterns, value_pattern, line_search_limit,
                   label, lines, start_line, search_lines, scanned,
                   value_positions, result>>

\* parse_columns, line 373
ReturnResults ==
    /\ pc = "for_line"
    /\ line_num = Len(lines)
    /\ pc' = "columns_done"
    /\ UNCHANGED <<distVars, labelVars, normVars, colVars, text,
                   label_word_patterns, value_pattern, line_search_limit,
                   label, lines, start_line, search_lines, scanned,
                   value_positions, result>>

NextColumns == SplitLines \/ ProcessLine \/ ReturnResults

SpecColumns == InitColumns /\ [][NextColumns]_vars

----------------------------------------------------------------------------
(* Properties of parse_columns, checked under SpecColumns *)

InParseColumns == pc \in {"parse_columns", "for_line", "columns_done"}

\* C14: in parse_columns, after every processed line the cut_points list is
\* strictly increasing (each element strictly greater than the previous),
\* for every input text and tab width >= 1.
C14_CutPointsIncrease ==
    InParseColumns
        => \A k \in 1..(Len(cut_points) - 1) : cut_points[k] < cut_points[k + 1]

\* two cut points stand after a line of three content groups that came
\* after another line with a record
C14_Witness ==
    /\ pc = "for_line"
    /\ Len(cut_points) = 2
    /\ Len(all_results) >= 2
    /\ Cardinality(DOMAIN all_results[Len(all_results)]) = 3

\* the input lines that are not blank, in input order
NonBlankLines == SelectSeq(Split(text), LAMBDA l : Strip(l) # <<>>)

\* the texts of the content groups of a line
GroupTexts(ln) ==
    { GroupText(ln, ContentGroups(ln, 1)[j]) :
        j \in 1..Len(ContentGroups(ln, 1)) }

\* the record holds content groups of the line and nothing else
RecordOf(record, ln) ==
    /\ DOMAIN record # {}
    /\ \A key \in DOMAIN record : record[key] \in GroupTexts(ln)

\* C15: parse_columns completes on every input (tab width >= 1) and returns
\* exactly one record per non-blank input line, in input order, and no
\* record for blank lines; no boundary contradiction aborts or drops a line.
C15_OneRecordPerLine ==
    InParseColumns
        => /\ pc = "for_line" => line_num <= Len(lines)
           /\ pc = "columns_done"
                 => /\ line_num = Len(lines)
                    /\ Len(all_results) = Len(NonBlankLines)
                    /\ \A k \in 1..Len(all_results) :
                           RecordOf(all_results[k], NonBlankLines[k])

\* a text with a blank line between two lines of two columns and a last line
\* that straddles the cut point: three records were returned, the last one
\* for the last line
C15_Witness ==
    /\ pc = "columns_done"
    /\ Len(lines) = 3
    /\ lines[1] = <<"a", " ", " ", "b">>
    /\ lines[2] = <<"j", "j", "j", "j">>
    /\ lines[3] = <<"k", " ", " ", " ", "l">>
    /\ Len(all_results) = 3
    /\ all_results[2] = <<lines[2]>>
    /\ cut_points # <<>>


----------------------------------------------------------------------------
(* find_pattern_match on its own, from any cursor *)

MatchTexts ==
    UNION { { Join(ls) : ls \in [1..n -> LabelLineSet] } :
            n \in 1..MaxMatchLines }

\* the pattern lists find_label searches with: all the patterns of a label,
\* and the ones left after its first word
MatchPatternLists ==
    { LabelPatterns(w) : w \in LabelWordLists }
    \cup { PyFrom(LabelPatterns(w), 1) : w \in LabelWordLists }

InitMatch ==
    /\ pc = "find_pattern_match"
    /\ IdleDist
    /\ IdleNorm
    /\ IdleCol
    /\ IdleValue
    /\ text \in MatchTexts
    /\ label_word_patterns = <<>>
    /\ label = NoLabel
    /\ label_starts = <<>>
    /\ first_idx = 0
    /\ start_idx = 0
    /\ current_label = ContentGroup(<<>>, 0, 0, 0, <<>>)
    /\ current_line \in 1..MaxMatchLines
    /\ current_char \in 0..MaxCursor
    /\ remaining_patterns \in MatchPatternLists
    /\ matches = <<>>
    /\ label_continuations = <<>>
    /\ next_label = NoLabel
    /\ next_idx = 0

\* what the call of line 336 returned
MatchReturned(r) ==
    /\ matches' = MatchesOf(text, remaining_patterns, current_line,
                            current_char, r)
    /\ label_continuations' = r.labels
    /\ next_idx' = r.idx

\* line 336: find_pattern_match(text, remaining_patterns, current_line,
\* current_char)
Match ==
    /\ pc = "find_pattern_match"
    /\ MatchReturned(find_pattern_match(text, remaining_patterns, current_line,
                                        current_char))
    /\ pc' = "matched"
    /\ UNCHANGED <<distVars, normVars, colVars, findVars, label_starts,
                   first_idx, start_idx, current_label, current_line,
                   current_char, remaining_patterns, next_label>>

NextMatch == Match

SpecMatch == InitMatch /\ [][NextMatch]_vars

\* the matches of the first k patterns, joined by whitespace, at or after
\* the cursor
PrefixMatches(k) == FindIter(CursorText, SubSeq(remaining_patterns, 1, k), 1)

\* the prefixes of the pattern list with at least one match
MatchingPrefixes ==
    { k \in 1..Len(remaining_patterns) : PrefixMatches(k) # <<>> }

LongestPrefix ==
    CHOOSE k \in MatchingPrefixes : \A j \in MatchingPrefixes : j <= k

\* the line of the match m of the searched text
MatchLine(m) == current_line + CountNL(CursorText, m.start)

\* C21: find_pattern_match returns the longest matching prefix: for the
\* largest k such that the first k patterns joined by whitespace have a match
\* at or after the cursor it returns index k - 1 and one span for every match
\* of those k patterns, each on the line of its match; when the first
\* pattern alone has no match it returns (None, 0).
C21_LongestPrefix ==
    pc = "matched"
        => IF MatchingPrefixes = {}
           THEN label_continuations = <<>> /\ next_idx = 0
           ELSE /\ next_idx = LongestPrefix - 1
                /\ Len(label_continuations) = Len(PrefixMatches(LongestPrefix))
                /\ \A j \in 1..Len(label_continuations) :
                       label_continuations[j].line_start
                           = MatchLine(PrefixMatches(LongestPrefix)[j])

\* three patterns were searched from a cursor inside the first line and only
\* the first two of them match there
C21_Witness ==
    /\ pc = "matched"
    /\ Len(remaining_patterns) = 3
    /\ current_char > 0
    /\ label_continuations # <<>>
    /\ next_idx = 1


----------------------------------------------------------------------------
(* choose_best_label_continuation on its own *)

\* the spans of the label so far and of its candidate continuations
ContSpans ==
    { ContentGroup(<<"c">>, ls, cs, cs + 1, <<ls>>) :
        ls \in 1..MaxContLine, cs \in 0..MaxContCol }

ContLists == UNION { [1..n -> ContSpans] : n \in 0..MaxConts }

InitContinuation ==
    /\ pc = "continuation"
    /\ IdleDist
    /\ IdleNorm
    /\ IdleCol
    /\ IdleValue
    /\ text = <<>>
    /\ label_word_patterns = <<>>
    /\ label = NoLabel
    /\ label_starts = <<>>
    /\ first_idx = 0
    /\ start_idx = 0
    /\ current_label \in ContSpans
    /\ current_line = 0
    /\ current_char = 0
    /\ remaining_patterns = <<>>
    /\ matches = <<>>
    /\ label_continuations \in ContLists
    /\ next_label = NoLabel
    /\ next_idx = 0

\* lines 341-343 for the continuation chosen: break when there is none
ContinuationChosen(chosen) ==
    /\ next_label' = IF chosen.found THEN chosen ELSE NoLabel
    /\ pc' = IF chosen.found THEN "stitch" ELSE "for"

\* line 341: choose_best_label_continuation(current_label,
\* label_continuations)
ChooseContinuation ==
    /\ pc = "continuation"
    /\ ContinuationChosen(choose_best_label_continuation(current_label,
                                                         label_continuations))
    /\ UNCHANGED <<distVars, normVars, colVars, findVars, label_starts,
                   first_idx, start_idx, current_label, current_line,
                   current_char, remaining_patterns, matches,
                   label_continuations, next_idx>>

NextContinuation == ChooseContinuation

SpecContinuation == InitContinuation /\ [][NextContinuation]_vars

\* the line gap of the candidate c
LineGap(c) == c.line_start - current_label.line_end

\* the horizontal offset of the candidate c
CharOffset(c) == Abs(c.char_start - current_label.char_start)

ContinuationSet ==
    { label_continuations[i] : i \in 1..Len(label_continuations) }

SmallestGap ==
    CHOOSE g \in { LineGap(c) : c \in ContinuationSet } :
        \A c \in ContinuationSet : g <= LineGap(c)

\* the call returned, and the while loop went on or stopped
ContinuationReturned == pc \in {"stitch", "for"}

----------------------------------------------------------------------------
(* Properties of the for loop of parse_columns, checked under SpecColumns *)

\* the step is one turn of the for loop
LineStep == pc = "for_line" /\ line_num' = line_num + 1

\* the line the step takes
TakenLine == lines[line_num + 1]

\* the step takes a blank line
BlankStep == LineStep /\ Strip(TakenLine) = <<>>

\* the step takes a line with content
ContentStep == LineStep /\ Strip(TakenLine) # <<>>

\* the content groups of the line the step takes, and the extents the step
\* measured for them
TakenGroups == ContentGroups(TakenLine, 1)

TakenExtents == norm_extents'

\* the extent e straddles a cut point the step starts with
Straddles(e) ==
    \E k \in 1..Len(cut_points) : e.start < cut_points[k] /\ cut_points[k] < e.end

\* the extent e lies in column j (0-based) of the cut points the step starts
\* with: at or after the cut before it and ending at or before the cut after
InColumn(e, j) ==
    /\ j = 0 \/ e.start >= cut_points[j]
    /\ j = Len(cut_points) \/ e.end <= cut_points[j + 1]

FitsSomeColumn(e) == \E j \in 0..Len(cut_points) : InColumn(e, j)

\* the line the step takes violates the cut points
LineViolates ==
    /\ cut_points # <<>>
    /\ \E i \in 1..Len(TakenExtents) :
           Straddles(TakenExtents[i]) \/ ~FitsSomeColumn(TakenExtents[i])

\* the step takes a line with content that violates no cut point
KeepingStep == ContentStep /\ ~LineViolates

\* the step takes a line with content that violates the cut points
ResettingStep == ContentStep /\ LineViolates

\* the gaps of the line the step takes: gap i lies between its content
\* groups i and i + 1 (0-based)
TakenGaps == 0..(Len(TakenExtents) - 2)

GapStart(i) == TakenExtents[i + 1].end

GapEnd(i) == TakenExtents[i + 2].start

\* the gap i of the line meets the stored estimate of gap i
GapMeets(i) ==
    Max(boundary_estimates[i][1], GapStart(i))
        < Min(boundary_estimates[i][2], GapEnd(i))

\* the estimate of gap i is kept or narrowed by the step
Narrows(i) ==
    /\ i \in DOMAIN boundary_estimates'
    /\ boundary_estimates'[i][1] >= boundary_estimates[i][1]
    /\ boundary_estimates'[i][2] <= boundary_estimates[i][2]

\* C23: between two resets every boundary estimate only narrows: on a line
\* that triggers no reset, every estimate that exists stays present, its
\* min_start does not decrease and its max_end does not increase, and an
\* estimate the line's gap does not intersect (or for which the line has no
\* gap) is left unchanged.
C23_EstimatesNarrow ==
    [][(BlankStep \/ KeepingStep)
          => \A i \in DOMAIN boundary_estimates :
                 /\ Narrows(i)
                 /\ (BlankStep \/ i \notin TakenGaps \/ ~GapMeets(i))
                        => boundary_estimates'[i] = boundary_estimates[i]]_vars

\* after a line of three columns, a line of two columns has narrowed the
\* estimate of the first gap and left the second one as it was
C23_Witness ==
    /\ pc = "for_line"
    /\ line_num = 2
    /\ lines[1] = <<"g", "g", " ", " ", " ", "h", " ", " ", "i">>
    /\ lines[2] = <<"a", " ", " ", "b">>
    /\ boundary_estimates[0] = <<2, 3>>
    /\ boundary_estimates[1] = <<6, 8>>


\* the middle of gap i of the line the step takes
GapMiddle(i) == GapStart(i) + (GapEnd(i) - GapStart(i)) \div 2

NewRecord == all_results'[Len(all_results')]

\* the text of content group i (1-based) of the line the step takes
TakenText(i) == GroupText(TakenLine, TakenGroups[i])

\* the cut points in force after the step that are at or before the start of
\* content group i
CutsBefore(i) ==
    { k \in 1..Len(cut_points') : cut_points'[k] <= TakenExtents[i].start }

\* the start of content group i lies between cut j and cut j + 1
StartsInColumn(i, j) ==
    /\ j = 0 \/ cut_points'[j] <= TakenExtents[i].start
    /\ j = Len(cut_points') \/ TakenExtents[i].start < cut_points'[j + 1]

\* content group i was put under the key: the key holds its text unless a
\* later content group of the line was put under the same key
PutUnder(i, key) ==
    /\ key \in DOMAIN NewRecord
    /\ \/ NewRecord[key] = TakenText(i)
       \/ \E later \in (i + 1)..Len(TakenExtents) :
              Cardinality(CutsBefore(later)) + 1 = key

\* C26: column assignment in parse_columns: with cut points, each content
\* group is put under key col(j + 1) where j is the number of cut points at
\* or before its normalized start (so cut j <= start < cut j + 1), and no
\* other key is written; without cut points the i-th content group of the
\* line (1-based) is put under key col(i).
C26_ColumnAssignment ==
    [][ContentStep
          => /\ Len(all_results') = Len(all_results) + 1
             /\ IF cut_points' # <<>>
                THEN /\ \A i \in 1..Len(TakenExtents) :
                            /\ PutUnder(i, Cardinality(CutsBefore(i)) + 1)
                            /\ StartsInColumn(i, Cardinality(CutsBefore(i)))
                     /\ DOMAIN NewRecord
                            = { Cardinality(CutsBefore(i)) + 1 :
                                  i \in 1..Len(TakenExtents) }
                ELSE /\ DOMAIN NewRecord = 1..Len(TakenGroups)
                     /\ \A i \in 1..Len(TakenGroups) :
                            NewRecord[i] = TakenText(i)]_vars

\* with tabs four columns wide, after a line that set the cut points 3 and 7
\* the line "e", two tabs, "f" has its second content group at column 8: it
\* was put under col3 and nothing under col2
C26_Witness ==
    /\ pc = "for_line"
    /\ line_num = 2
    /\ tabsize = 4
    /\ lines[1] = <<"g", "g", " ", " ", " ", "h", " ", " ", "i">>
    /\ lines[2] = <<"e", TAB, TAB, "f">>
    /\ cut_points = <<3, 7>>
    /\ all_results[2] = (1 :> <<"e">>) @@ (3 :> <<"f">>)


\* the step recalculates the cut points: it takes a line with content while
\* there are no cut points, or a line that violates them
RecomputingStep == ContentStep /\ (cut_points = <<>> \/ LineViolates)

\* the middle of the estimate stored for gap i after the step
EstimateMiddle(i) ==
    boundary_estimates'[i][1]
        + (boundary_estimates'[i][2] - boundary_estimates'[i][1]) \div 2

C28_NoContentLost ==
    pc = "columns_done"
        => \A k \in 1..Len(all_results) :
               Cardinality(DOMAIN all_results[k])
                   = Len(ContentGroups(NonBlankLines[k], 1))


\* some content group of the line the step takes straddles a cut point
SomeStraddles ==
    \E i \in 1..Len(TakenExtents) : Straddles(TakenExtents[i])

\* C29: in parse_columns a reset happens exactly when some content group
\* straddles a cut point (start < cut < end): the second violation test
\* ("fits in no column") is never the cause of a reset, because a content
\* group that straddles no cut point always fits one of the column ranges.
C29_ResetOnlyByStraddle ==
    [][ContentStep
          => /\ reset_boundaries' <=> (cut_points # <<>> /\ SomeStraddles)
             /\ cut_points # <<>>
                    => \A i \in 1..Len(TakenExtents) :
                           \/ Straddles(TakenExtents[i])
                           \/ FitsInColumn(TakenExtents[i], cut_points)]_vars

\* after a line that set the cut point 2, the line "jjjj" straddled it and
\* reset the structure
C29_Witness ==
    /\ pc = "for_line"
    /\ line_num = 2
    /\ lines[1] = <<"a", " ", " ", "b">>
    /\ lines[2] = <<"j", "j", "j", "j">>
    /\ reset_boundaries
    /\ cut_points = <<>>
    /\ max_cols_seen = 1


\* every estimate stored after the step is a range that is not empty
EstimatesValid ==
    \A i \in DOMAIN boundary_estimates' :
        boundary_estimates'[i][1] < boundary_estimates'[i][2]

\* the estimates after the step are the gaps of the line the step takes
EstimatesOfTakenLine ==
    /\ DOMAIN boundary_estimates' = TakenGaps
    /\ \A i \in TakenGaps :
           boundary_estimates'[i] = <<GapStart(i), GapEnd(i)>>

\* C30: at every line boundary of parse_columns, cut_points empty implies
\* boundary_estimates empty; hence every cut_points list is computed from
\* the gaps of exactly one line, every stored estimate is non-degenerate
\* (min_start < max_end), and the recomputation never stops at a collapsed
\* estimate or at a cut that is not greater than the previous one: it
\* yields one cut for every gap of that line.
C30_CutsFromOneLine ==
    [][LineStep
          => /\ cut_points' = <<>> => DOMAIN boundary_estimates' = {}
             /\ EstimatesValid
             /\ RecomputingStep
                    => /\ EstimatesOfTakenLine
                       /\ Len(cut_points') = Cardinality(TakenGaps)]_vars

\* the second line fits the cut points 3 and 7 with a first gap, 5..8, that
\* does not meet the estimate 2..5 stored for the first gap: both estimates
\* and both cut points are still those of the first line
C30_Witness ==
    /\ pc = "for_line"
    /\ line_num = 2
    /\ lines[1] = <<"g", "g", " ", " ", " ", "h", " ", " ", "i">>
    /\ lines[2] = <<" ", " ", " ", " ", "m", " ", " ", " ", "n">>
    /\ ~reset_boundaries
    /\ boundary_estimates = (0 :> <<2, 5>>) @@ (1 :> <<6, 8>>)
    /\ cut_points = <<3, 7>>

====
